---- MODULE Spec2Model ----
(***************************************************************************)
(* The mutation resolvers of the sickfits backend (Mutations, Query) as a  *)
(* state machine over the persistent store, the payment gateway and the    *)
(* requests in flight.  Every request is one invocation of a resolver; it  *)
(* advances one `await` at a time, so two requests interleave exactly      *)
(* where the JavaScript code yields to the event loop.                     *)
(***************************************************************************)
EXTENDS Integers, Sequences, FiniteSets, TLC

\* ------------------------------------------------------------- bounds

\* Number of requests a behaviour holds; every request runs one resolver once.
NReq == 3

\* Number of clock ticks the store's clock may advance.
MaxTicks == 3

\* ---------------------------------------------------------- constants

\* resetTokenExpiry = Date.now() + 3600000
ResetExpiryMs == 3600000

\* resetTokenExpiry_gte: Date.now() - 3600000
ResetLookupMs == 3600000

\* The clock advances an hour at a time.
TickMs == 60 * 60 * 1000

\* quantity of a CartItem that createCartItem is not given a quantity for.
DefaultQuantity == 1

Req == 1..NReq

\* ctx.request.userId of a request that carries no session.
Anonymous == ""

UserIds == {"u1", "u2"}
ItemIds == {"i1", "i2"}
Prices == {500, 1000}

\* An optional value (undefined / null in the code) is <<>> or <<v>>.
None == <<>>
Some(v) == <<v>>
IsSome(o) == o # <<>>
Get(o) == o[1]

VARIABLES
    users,       \* store: User rows, id -> row
    items,       \* store: Item rows, id -> row
    cartItems,   \* store: CartItem rows, id -> row
    orders,      \* store: Order rows in creation order (the id is the index)
    nextCartId,  \* store: ids are never reused
    nextToken,   \* randomBytes: every draw is a fresh token
    gateway,     \* payment gateway: the charge calls received, in order
    now,         \* Date.now()
    pc,          \* request -> where it stands
    op,          \* request -> resolver it runs
    actor,       \* request -> ctx.request.userId
    arg,         \* request -> args
    loc,         \* request -> the resolver's local constants
    result       \* request -> outcome once pc is "done"

store == <<users, items, cartItems, orders, nextCartId>>
reqs == <<pc, op, actor, arg, loc, result>>
vars == <<users, items, cartItems, orders, nextCartId, nextToken, gateway, now,
          pc, op, actor, arg, loc, result>>

\* bcrypt.hash(password, 10): one-way; the salt is left out.
Hash(p) == <<"bcrypt", p>>

NoLocals == [cart |-> <<>>, charge |-> None, found |-> None]

SeedUser(e, p) ==
    [email |-> e, password |-> Hash(p), permissions |-> {"USER"},
     resetToken |-> None, resetTokenExpiry |-> None]

SeedItem(t, p, u) ==
    [title |-> t, price |-> p, description |-> "d-" \o t, image |-> "s-" \o t,
     largeImage |-> "l-" \o t, user |-> u]

\* The store seeded with two users (u2 holding permissions p2) and an item of each.
Seeded(p2) ==
    /\ users = [u \in UserIds |->
                  IF u = "u1" THEN SeedUser("a@x", "pw1")
                  ELSE [SeedUser("b@x", "pw2") EXCEPT !.permissions = p2]]
    /\ items = [i \in ItemIds |->
                  IF i = "i1" THEN SeedItem("shirt", 1000, "u1")
                              ELSE SeedItem("shoes", 500, "u2")]
    /\ cartItems = <<>>
    /\ orders = <<>>
    /\ nextCartId = 1
    /\ nextToken = 1
    /\ gateway = <<>>
    /\ now = 0
    /\ pc = [r \in Req |-> "idle"]
    /\ op = [r \in Req |-> "none"]
    /\ actor = [r \in Req |-> Anonymous]
    /\ arg = [r \in Req |-> [id |-> ""]]
    /\ loc = [r \in Req |-> NoLocals]
    /\ result = [r \in Req |-> "pending"]

\* Both users as signup made them.
Init == Seeded({"USER"})

\* u2 has been made an administrator.
InitAdmin == Seeded({"USER", "ADMIN"})

\* ------------------------------------------------------ request steps

\* A request arrives: requests are numbered in the order they arrive.
Arrives(r) == pc[r] = "idle" /\ \A q \in Req : q < r => pc[q] # "idle"

\* The resolver of request r starts as o, called by u with args a.
Enter(r, o, u, a) ==
    /\ op' = [op EXCEPT ![r] = o]
    /\ actor' = [actor EXCEPT ![r] = u]
    /\ arg' = [arg EXCEPT ![r] = a]

\* The resolver goes on to its next await with locals l.
Goto(r, label, l) ==
    /\ pc' = [pc EXCEPT ![r] = label]
    /\ loc' = [loc EXCEPT ![r] = l]
    /\ UNCHANGED result

\* The resolver returns (res = "ok") or throws (res names the failure).
Finish(r, res, l) ==
    /\ pc' = [pc EXCEPT ![r] = "done"]
    /\ loc' = [loc EXCEPT ![r] = l]
    /\ result' = [result EXCEPT ![r] = res]

\* ------------------------------------------------------------- store

\* The smallest element of a non-empty set of ids.
MinOf(S) == CHOOSE m \in S : \A n \in S : m <= n

\* A set of integer ids as the ascending sequence the store returns rows in.
RECURSIVE Ascending(_)
Ascending(S) ==
    IF S = {} THEN <<>> ELSE <<MinOf(S)>> \o Ascending(S \ {MinOf(S)})

\* A function without the keys in K / with key k bound to v.
Without(f, K) == [k \in DOMAIN f \ K |-> f[k]]
With(f, k, v) == [x \in DOMAIN f \cup {k} |-> IF x = k THEN v ELSE f[x]]

\* db.query.item / nested item { ... }: the row with its id, or null.
ItemRow(i) ==
    IF i \in DOMAIN items
    THEN Some([id |-> i, title |-> items[i].title, price |-> items[i].price,
               description |-> items[i].description, image |-> items[i].image,
               largeImage |-> items[i].largeImage])
    ELSE None

\* { ...a, ...b }: the fields of a, overridden and extended by those of b.
Spread(a, b) ==
    [f \in DOMAIN a \cup DOMAIN b |-> IF f \in DOMAIN b THEN b[f] ELSE a[f]]

\* delete rec[name]
DeleteField(rec, name) == [f \in DOMAIN rec \ {name} |-> rec[f]]

\* ---------------------------------------------------------- addToCart

\* db.query.cartItems({ where: { user: { id }, item: { id } } })
CartItemsOf(u, i) ==
    {c \in DOMAIN cartItems : cartItems[c].user = u /\ cartItems[c].item = i}

\* const [existingCartItem] = ...: the first row of the answer, or undefined.
ExistingCartItem(u, i) ==
    IF CartItemsOf(u, i) = {} THEN None
    ELSE Some([id |-> MinOf(CartItemsOf(u, i)),
               quantity |-> cartItems[MinOf(CartItemsOf(u, i))].quantity])

\* IncrementedQuantity without its "+ 1".
SameQuantity(existing) == existing.quantity

\* data: { quantity: existingCartItem.quantity + 1 }
IncrementedQuantity(existing) == existing.quantity + 1

\* db.mutation.createCartItem({ data: { user: connect, item: connect } })
NewCartItem(u, i) == [user |-> u, item |-> i, quantity |-> DefaultQuantity]

\* addToCart up to the answer of its cartItems query.
AddToCartQuery(r, u, i) ==
    /\ Arrives(r)
    /\ Enter(r, "addToCart", u, [id |-> i])
    /\ IF u = Anonymous
       THEN Finish(r, "Unauthenticated", NoLocals)
       ELSE Goto(r, "atc_write", [NoLocals EXCEPT !.found = ExistingCartItem(u, i)])
    /\ UNCHANGED <<store, nextToken, gateway, now>>

\* addToCart's write: updateCartItem of the row it read, or createCartItem.
AddToCartWrite(r) ==
    /\ pc[r] = "atc_write"
    /\ LET e == loc[r].found IN
       IF IsSome(e)
       THEN IF Get(e).id \in DOMAIN cartItems
            THEN /\ cartItems' = [cartItems EXCEPT
                                    ![Get(e).id].quantity = IncrementedQuantity(Get(e))]
                 /\ UNCHANGED nextCartId
                 /\ Finish(r, "ok", loc[r])
            ELSE /\ UNCHANGED <<cartItems, nextCartId>>
                 /\ Finish(r, "StoreError", loc[r])
       ELSE IF arg[r].id \in DOMAIN items
            THEN /\ cartItems' = With(cartItems, nextCartId,
                                      NewCartItem(actor[r], arg[r].id))
                 /\ nextCartId' = nextCartId + 1
                 /\ Finish(r, "ok", loc[r])
            ELSE /\ UNCHANGED <<cartItems, nextCartId>>
                 /\ Finish(r, "StoreError", loc[r])
    /\ UNCHANGED <<users, items, orders, nextToken, gateway, now, op, actor, arg>>

\* ----------------------------------------------------- removeFromCart

\* db.query.cartItem({ where: { id } }, `{ id, user { id }}`)
CartItemById(c) ==
    IF c \in DOMAIN cartItems THEN Some([id |-> c, user |-> cartItems[c].user])
    ELSE None

\* RemoveFromCartQuery without its comparison of the row's user to the caller.
RemoveFromCartQueryAnyOwner(r, u, c) ==
    /\ Arrives(r)
    /\ Enter(r, "removeFromCart", u, [id |-> c])
    /\ LET found == CartItemById(c) IN
       IF ~IsSome(found) THEN Finish(r, "NotFound", NoLocals)
       ELSE Goto(r, "rfc_delete", [NoLocals EXCEPT !.found = found])
    /\ UNCHANGED <<store, nextToken, gateway, now>>

\* removeFromCart up to the answer of its cartItem query and its two checks.
RemoveFromCartQuery(r, u, c) ==
    /\ Arrives(r)
    /\ Enter(r, "removeFromCart", u, [id |-> c])
    /\ LET found == CartItemById(c) IN
       IF ~IsSome(found) THEN Finish(r, "NotFound", NoLocals)
       ELSE IF Get(found).user # u THEN Finish(r, "Forbidden", NoLocals)
       ELSE Goto(r, "rfc_delete", [NoLocals EXCEPT !.found = found])
    /\ UNCHANGED <<store, nextToken, gateway, now>>

\* db.mutation.deleteCartItem({ where: { id: args.id } })
RemoveFromCartDelete(r) ==
    /\ pc[r] = "rfc_delete"
    /\ IF arg[r].id \in DOMAIN cartItems
       THEN /\ cartItems' = Without(cartItems, {arg[r].id})
            /\ Finish(r, "ok", loc[r])
       ELSE /\ UNCHANGED cartItems
            /\ Finish(r, "StoreError", loc[r])
    /\ UNCHANGED <<users, items, orders, nextCartId, nextToken, gateway, now,
                   op, actor, arg>>

\* --------------------------------------------------------- updateItem

\* updateItem: no session check; data is args without id.
UpdateItem(r, u, i, updates) ==
    /\ Arrives(r)
    /\ Enter(r, "updateItem", u, Spread([id |-> i], updates))
    /\ IF i \in DOMAIN items
       THEN /\ items' = [items EXCEPT ![i] = Spread(items[i], updates)]
            /\ Finish(r, "ok", NoLocals)
       ELSE /\ UNCHANGED items
            /\ Finish(r, "StoreError", NoLocals)
    /\ UNCHANGED <<users, cartItems, orders, nextCartId, nextToken, gateway, now>>

\* -------------------------------------------------------- createOrder

\* user.cart of db.query.user(..., `{ cart { id quantity item { ... } } }`)
CartRow(c) ==
    [id |-> c, quantity |-> cartItems[c].quantity, item |-> ItemRow(cartItems[c].item)]

CartSnapshot(u) ==
    LET ids == Ascending({c \in DOMAIN cartItems : cartItems[c].user = u})
    IN  [k \in 1..Len(ids) |-> CartRow(ids[k])]

\* cartItem.item.price of a cart row whose item is null throws a TypeError.
HasNullItem(cart) == \E k \in 1..Len(cart) : ~IsSome(cart[k].item)

\* CartAmount without its "* cartItem.quantity".
RECURSIVE CartAmountOfPrices(_)
CartAmountOfPrices(cart) ==
    IF cart = <<>> THEN 0
    ELSE CartAmountOfPrices(SubSeq(cart, 1, Len(cart) - 1))
         + Get(cart[Len(cart)].item).price

\* user.cart.reduce((tally, cartItem) => tally + cartItem.item.price * cartItem.quantity, 0)
RECURSIVE CartAmount(_)
CartAmount(cart) ==
    IF cart = <<>> THEN 0
    ELSE CartAmount(SubSeq(cart, 1, Len(cart) - 1))
         + Get(cart[Len(cart)].item).price * cart[Len(cart)].quantity

\* stripe.charges.create({ amount, currency: 'USD', source: args.token })
ChargeRequest(amount, token) ==
    [amount |-> amount, currency |-> "USD", source |-> token]

\* The amount a successful charge reports as captured is the gateway's own answer.
Captured(amount) == {amount} \cup (IF amount > 0 THEN {amount - 1} ELSE {})

\* OrderItemOf without its "delete orderItem.id".
OrderItemWithId(cartItem, u) ==
    Spread(Get(cartItem.item), [quantity |-> cartItem.quantity, user |-> u])

\* { ...cartItem.item, quantity, user: connect }; delete orderItem.id
OrderItemOf(cartItem, u) ==
    DeleteField(Spread(Get(cartItem.item), [quantity |-> cartItem.quantity, user |-> u]),
                "id")

\* user.cart.map(cartItem => ...)
OrderItems(cart, u) == [k \in 1..Len(cart) |-> OrderItemOf(cart[k], u)]

\* data of db.mutation.createOrder
NewOrder(charge, cart, u) ==
    [total |-> charge.amount, charge |-> charge.id, items |-> OrderItems(cart, u),
     user |-> u]

\* user.cart.map(cartItem => cartItem.id)
CartItemIds(cart) == {cart[k].id : k \in 1..Len(cart)}

\* DeleteManyCartItems without its where clause.
DeleteEveryCartItem(rows, ids) == Without(rows, DOMAIN rows)

\* deleteManyCartItems({ where: { id_in: cartItemIds } })
DeleteManyCartItems(rows, ids) == Without(rows, ids)

\* createOrder up to the answer of its user query: the cart snapshot.
CreateOrderQuery(r, u) ==
    /\ Arrives(r)
    /\ Enter(r, "createOrder", u, [token |-> r])
    /\ IF u = Anonymous
       THEN Finish(r, "Unauthenticated", NoLocals)
       ELSE Goto(r, "co_charge", [NoLocals EXCEPT !.cart = CartSnapshot(u)])
    /\ UNCHANGED <<store, nextToken, gateway, now>>

\* The user query is rejected by the store: the rejection is what createOrder throws.
CreateOrderQueryFail(r, u) ==
    /\ Arrives(r)
    /\ u # Anonymous
    /\ Enter(r, "createOrder", u, [token |-> r])
    /\ Finish(r, "StoreError", NoLocals)
    /\ UNCHANGED <<store, nextToken, gateway, now>>

\* The amount, then the gateway's charge, which succeeds.
CreateOrderCharge(r) ==
    /\ pc[r] = "co_charge"
    /\ IF HasNullItem(loc[r].cart)
       THEN /\ Finish(r, "TypeError", loc[r])
            /\ UNCHANGED gateway
       ELSE \E captured \in Captured(CartAmount(loc[r].cart)) :
              /\ gateway' = Append(gateway,
                     Spread(ChargeRequest(CartAmount(loc[r].cart), arg[r].token),
                            [ok |-> TRUE]))
              /\ Goto(r, "co_create",
                      [loc[r] EXCEPT !.charge =
                          Some([id |-> Len(gateway) + 1, amount |-> captured])])
    /\ UNCHANGED <<store, nextToken, now, op, actor, arg>>

\* CreateOrderChargeFail with the rejection caught and the cart cleared all the same.
CreateOrderChargeFailClears(r) ==
    /\ pc[r] = "co_charge"
    /\ ~HasNullItem(loc[r].cart)
    /\ gateway' = Append(gateway,
           Spread(ChargeRequest(CartAmount(loc[r].cart), arg[r].token), [ok |-> FALSE]))
    /\ cartItems' = Without(cartItems, {loc[r].cart[k].id : k \in 1..Len(loc[r].cart)})
    /\ Finish(r, "GatewayError", loc[r])
    /\ UNCHANGED <<users, items, orders, nextCartId, nextToken, now, op, actor, arg>>

\* The gateway's charge fails: stripe's rejection is what createOrder throws.
CreateOrderChargeFail(r) ==
    /\ pc[r] = "co_charge"
    /\ ~HasNullItem(loc[r].cart)
    /\ gateway' = Append(gateway,
           Spread(ChargeRequest(CartAmount(loc[r].cart), arg[r].token), [ok |-> FALSE]))
    /\ Finish(r, "GatewayError", loc[r])
    /\ UNCHANGED <<store, nextToken, now, op, actor, arg>>

\* db.mutation.createOrder
CreateOrderPersist(r) ==
    /\ pc[r] = "co_create"
    /\ orders' = Append(orders, NewOrder(Get(loc[r].charge), loc[r].cart, actor[r]))
    /\ Goto(r, "co_clear", [loc[r] EXCEPT !.found = Some(Len(orders) + 1)])
    /\ UNCHANGED <<users, items, cartItems, nextCartId, nextToken, gateway, now,
                   op, actor, arg>>

\* db.mutation.createOrder is rejected by the store.
CreateOrderPersistFail(r) ==
    /\ pc[r] = "co_create"
    /\ Finish(r, "StoreError", loc[r])
    /\ UNCHANGED <<store, nextToken, gateway, now, op, actor, arg>>

\* db.mutation.deleteManyCartItems, then return order
CreateOrderClear(r) ==
    /\ pc[r] = "co_clear"
    /\ cartItems' = DeleteManyCartItems(cartItems, CartItemIds(loc[r].cart))
    /\ Finish(r, "ok", loc[r])
    /\ UNCHANGED <<users, items, orders, nextCartId, nextToken, gateway, now,
                   op, actor, arg>>

\* db.mutation.deleteManyCartItems is rejected by the store.
CreateOrderClearFail(r) ==
    /\ pc[r] = "co_clear"
    /\ Finish(r, "StoreError", loc[r])
    /\ UNCHANGED <<store, nextToken, gateway, now, op, actor, arg>>

\* --------------------------------------------------------- createItem

\* Ids the store gives to the rows created in a behaviour.
NewItemIds == {"i3"}
NewUserIds == {"u3"}

\* createItem: session check, then db.mutation.createItem({ data: { user, ...args } })
CreateItem(r, u, i, t, p) ==
    /\ Arrives(r)
    /\ i \in NewItemIds \ DOMAIN items
    /\ Enter(r, "createItem", u, [title |-> t, price |-> p])
    /\ IF u = Anonymous
       THEN /\ UNCHANGED items
            /\ Finish(r, "Unauthenticated", NoLocals)
       ELSE /\ items' = With(items, i, SeedItem(t, p, u))
            /\ Finish(r, "ok", NoLocals)
    /\ UNCHANGED <<users, cartItems, orders, nextCartId, nextToken, gateway, now>>

\* --------------------------------------------------------- deleteItem

\* ctx.request.user: the session's User row, present only with a session.
RequestUser(u) == IF u \in DOMAIN users THEN Some(users[u]) ELSE None

\* permissions.some(permission => required.includes(permission))
HasAny(permissions, required) == permissions \cap required # {}

\* DeleteItemQuery deciding on the permissions alone, the owner not excepted.
DeleteItemQueryPermissionsOnly(r, u, i) ==
    /\ Arrives(r)
    /\ Enter(r, "deleteItem", u, [id |-> i])
    /\ IF i \notin DOMAIN items \/ ~IsSome(RequestUser(u))
       THEN Finish(r, "TypeError", NoLocals)
       ELSE IF ~HasAny(Get(RequestUser(u)).permissions, {"ADMIN", "ITEMDELETE"})
            THEN Finish(r, "Forbidden", NoLocals)
            ELSE Goto(r, "di_delete", [NoLocals EXCEPT !.found = Some(i)])
    /\ UNCHANGED <<store, nextToken, gateway, now>>

\* deleteItem up to the answer of its item query and its check.
DeleteItemQuery(r, u, i) ==
    /\ Arrives(r)
    /\ Enter(r, "deleteItem", u, [id |-> i])
    /\ IF i \notin DOMAIN items \/ ~IsSome(RequestUser(u))
       THEN Finish(r, "TypeError", NoLocals)
       ELSE IF items[i].user # u
               /\ ~HasAny(Get(RequestUser(u)).permissions, {"ADMIN", "ITEMDELETE"})
            THEN Finish(r, "Forbidden", NoLocals)
            ELSE Goto(r, "di_delete", [NoLocals EXCEPT !.found = Some(i)])
    /\ UNCHANGED <<store, nextToken, gateway, now>>

\* DeleteItemDelete taking with the item the OrderItems that were made of it.
DeleteItemDeleteCascades(r) ==
    /\ pc[r] = "di_delete"
    /\ IF arg[r].id \in DOMAIN items
       THEN /\ items' = Without(items, {arg[r].id})
            /\ orders' = [o \in 1..Len(orders) |->
                            [orders[o] EXCEPT !.items =
                                SelectSeq(@, LAMBDA it : it.title # items[arg[r].id].title)]]
            /\ Finish(r, "ok", loc[r])
       ELSE /\ UNCHANGED <<items, orders>>
            /\ Finish(r, "StoreError", loc[r])
    /\ UNCHANGED <<users, cartItems, nextCartId, nextToken, gateway, now,
                   op, actor, arg>>

\* db.mutation.deleteItem({ where })
DeleteItemDelete(r) ==
    /\ pc[r] = "di_delete"
    /\ IF arg[r].id \in DOMAIN items
       THEN /\ items' = Without(items, {arg[r].id})
            /\ Finish(r, "ok", loc[r])
       ELSE /\ UNCHANGED items
            /\ Finish(r, "StoreError", loc[r])
    /\ UNCHANGED <<users, cartItems, orders, nextCartId, nextToken, gateway, now,
                   op, actor, arg>>

\* -------------------------------------------------- updatePermissions

\* hasPermission(user, permissionsNeeded) of utils: throws unless one is held.
HasPermission(user, needed) == HasAny(user.permissions, needed)

\* UpdatePermissionsQuery with the check waived for a caller changing their own row.
UpdatePermissionsQueryOwnRow(r, u, target, perms) ==
    /\ Arrives(r)
    /\ Enter(r, "updatePermissions", u, [userId |-> target, permissions |-> perms])
    /\ IF u = Anonymous THEN Finish(r, "Unauthenticated", NoLocals)
       ELSE IF u # target /\ ~HasPermission(users[u], {"ADMIN", "PERMISSIONUPDATE"})
            THEN Finish(r, "Forbidden", NoLocals)
            ELSE Goto(r, "up_update", [NoLocals EXCEPT !.found = Some(u)])
    /\ UNCHANGED <<store, nextToken, gateway, now>>

\* updatePermissions up to the answer of its user query and its check.
UpdatePermissionsQuery(r, u, target, perms) ==
    /\ Arrives(r)
    /\ Enter(r, "updatePermissions", u, [userId |-> target, permissions |-> perms])
    /\ IF u = Anonymous THEN Finish(r, "Unauthenticated", NoLocals)
       ELSE IF ~HasPermission(users[u], {"ADMIN", "PERMISSIONUPDATE"})
            THEN Finish(r, "Forbidden", NoLocals)
            ELSE Goto(r, "up_update", [NoLocals EXCEPT !.found = Some(u)])
    /\ UNCHANGED <<store, nextToken, gateway, now>>

\* db.mutation.updateUser({ data: { permissions: { set } }, where: { id } })
UpdatePermissionsUpdate(r) ==
    /\ pc[r] = "up_update"
    /\ IF arg[r].userId \in DOMAIN users
       THEN /\ users' = [users EXCEPT ![arg[r].userId].permissions = arg[r].permissions]
            /\ Finish(r, "ok", loc[r])
       ELSE /\ UNCHANGED users
            /\ Finish(r, "StoreError", loc[r])
    /\ UNCHANGED <<items, cartItems, orders, nextCartId, nextToken, gateway, now,
                   op, actor, arg>>

\* ------------------------------------------------------------- signup

\* email.toLowerCase() over the addresses "a@x", "b@x", "c@x", "A@x", "C@x".
ToLowerCase(e) == IF e = "A@x" THEN "a@x" ELSE IF e = "C@x" THEN "c@x" ELSE e

\* db.query.user({ where: { email } }): the id of the row, or null.
UserByEmail(e) ==
    IF \E u \in DOMAIN users : users[u].email = e
    THEN Some(CHOOSE u \in DOMAIN users : users[u].email = e)
    ELSE None

\* data: { ...args, password, permissions: { set: ['USER'] } }; the fields the
\* data leaves out are null in the new row.
CreateUserData(args) ==
    Spread(Spread([resetToken |-> None, resetTokenExpiry |-> None], args),
           [password |-> Hash(args.password), permissions |-> {"USER"}])

\* args.email = args.email.toLowerCase()
LowerCased(args) == [args EXCEPT !.email = ToLowerCase(args.email)]

\* The row signup makes of an email and a password.
NewUser(e, p) == CreateUserData(LowerCased([email |-> e, password |-> p]))

\* signup with the arguments args: the store refuses a second row with the
\* same email.
SignupWith(r, id, args) ==
    /\ Arrives(r)
    /\ id \in NewUserIds \ DOMAIN users
    /\ Enter(r, "signup", Anonymous, LowerCased(args))
    /\ IF IsSome(UserByEmail(ToLowerCase(args.email)))
       THEN /\ UNCHANGED users
            /\ Finish(r, "StoreError", NoLocals)
       ELSE /\ users' = With(users, id, CreateUserData(LowerCased(args)))
            /\ Finish(r, "ok", NoLocals)
    /\ UNCHANGED <<items, cartItems, orders, nextCartId, nextToken, gateway, now>>

\* signup(email, password), the arguments of the schema's mutation.
Signup(r, id, e, p) == SignupWith(r, id, [email |-> e, password |-> p])

\* ------------------------------------------------------- requestReset

\* ResetData without its resetTokenExpiry.
ResetTokenOnly(token, t) == [resetToken |-> Some(token)]

\* data: { resetToken, resetTokenExpiry } with resetTokenExpiry = Date.now() + 3600000
ResetData(token, t) ==
    [resetToken |-> Some(token), resetTokenExpiry |-> Some(t + ResetExpiryMs)]

\* requestReset up to the answer of its user query.
RequestResetQuery(r, u, e) ==
    /\ Arrives(r)
    /\ Enter(r, "requestReset", u, [email |-> e])
    /\ IF IsSome(UserByEmail(e))
       THEN Goto(r, "rr_update", [NoLocals EXCEPT !.found = UserByEmail(e)])
       ELSE Finish(r, "NotFound", NoLocals)
    /\ UNCHANGED <<store, nextToken, gateway, now>>

\* randomBytes, Date.now() and db.mutation.updateUser({ where: { email }, data })
RequestResetUpdate(r) ==
    /\ pc[r] = "rr_update"
    /\ users' = [users EXCEPT ![Get(UserByEmail(arg[r].email))] =
                    Spread(@, ResetData(nextToken, now))]
    /\ nextToken' = nextToken + 1
    /\ Goto(r, "rr_mail", loc[r])
    /\ UNCHANGED <<items, cartItems, orders, nextCartId, gateway, now, op, actor, arg>>

\* transport.sendMail resolves: return { message: "Reset sent!" }
RequestResetMail(r) ==
    /\ pc[r] = "rr_mail"
    /\ Finish(r, "ok", loc[r])
    /\ UNCHANGED <<store, nextToken, gateway, now, op, actor, arg>>

\* transport.sendMail rejects: the rejection is what requestReset throws.
RequestResetMailFail(r) ==
    /\ pc[r] = "rr_mail"
    /\ Finish(r, "MailError", loc[r])
    /\ UNCHANGED <<store, nextToken, gateway, now, op, actor, arg>>

\* ------------------------------------------------------ resetPassword

\* where: { resetToken, resetTokenExpiry_gte: Date.now() - 3600000 }
MatchesReset(user, token, t) ==
    /\ user.resetToken = Some(token)
    /\ IsSome(user.resetTokenExpiry)
    /\ Get(user.resetTokenExpiry) >= t - ResetLookupMs

\* const [user] = await db.query.users({ where }): the first row, or undefined.
UserByResetToken(token, t) ==
    IF \E u \in DOMAIN users : MatchesReset(users[u], token, t)
    THEN Some(CHOOSE u \in DOMAIN users : MatchesReset(users[u], token, t))
    ELSE None

\* data: { password, resetToken: null, resetTokenExpiry: null }
PasswordData(p) ==
    [password |-> Hash(p), resetToken |-> None, resetTokenExpiry |-> None]

\* ResetPasswordQuery comparing the passwords after the token has been looked up
\* and cleared.
ResetPasswordQueryClearsFirst(r, u, token, p, c) ==
    /\ Arrives(r)
    /\ Enter(r, "resetPassword", u,
             [resetToken |-> token, password |-> p, confirmPassword |-> c])
    /\ IF ~IsSome(UserByResetToken(token, now))
       THEN /\ UNCHANGED users
            /\ Finish(r, "InvalidOrExpired", NoLocals)
       ELSE IF p # c
            THEN /\ users' = [users EXCEPT ![Get(UserByResetToken(token, now))] =
                                Spread(@, [resetToken |-> None, resetTokenExpiry |-> None])]
                 /\ Finish(r, "InvalidInput", NoLocals)
            ELSE /\ UNCHANGED users
                 /\ Goto(r, "rp_update",
                         [NoLocals EXCEPT !.found =
                             Some(users[Get(UserByResetToken(token, now))].email)])
    /\ UNCHANGED <<items, cartItems, orders, nextCartId, nextToken, gateway, now>>

\* resetPassword up to the answer of its users query.
ResetPasswordQuery(r, u, token, p, c) ==
    /\ Arrives(r)
    /\ Enter(r, "resetPassword", u,
             [resetToken |-> token, password |-> p, confirmPassword |-> c])
    /\ IF p # c THEN Finish(r, "InvalidInput", NoLocals)
       ELSE IF ~IsSome(UserByResetToken(token, now))
            THEN Finish(r, "InvalidOrExpired", NoLocals)
            ELSE Goto(r, "rp_update",
                      [NoLocals EXCEPT !.found =
                          Some(users[Get(UserByResetToken(token, now))].email)])
    /\ UNCHANGED <<store, nextToken, gateway, now>>

\* bcrypt.hash, then db.mutation.updateUser({ where: { email: user.email }, data })
ResetPasswordUpdate(r) ==
    /\ pc[r] = "rp_update"
    /\ users' = [users EXCEPT ![Get(UserByEmail(Get(loc[r].found)))] =
                    Spread(@, PasswordData(arg[r].password))]
    /\ Finish(r, "ok", loc[r])
    /\ UNCHANGED <<items, cartItems, orders, nextCartId, nextToken, gateway, now,
                   op, actor, arg>>

\* -------------------------------------------------------------- clock

Tick ==
    /\ now < MaxTicks * TickMs
    /\ now' = now + TickMs
    /\ UNCHANGED <<store, nextToken, gateway, reqs>>

\* ------------------------------------------------ cart specification

CartStep(r) ==
    \/ AddToCartWrite(r)
    \/ RemoveFromCartDelete(r)
    \/ CreateOrderCharge(r)
    \/ CreateOrderChargeFail(r)
    \/ CreateOrderPersist(r)
    \/ CreateOrderClear(r)

\* Carts and checkout: signed-in users add to and remove from their carts, edit
\* the price of items and check out, concurrently; the gateway may reject a charge.
NextCart ==
    \E r \in Req :
        \/ \E u \in UserIds, i \in ItemIds : AddToCartQuery(r, u, i)
        \/ \E u \in UserIds, c \in 1..nextCartId : RemoveFromCartQuery(r, u, c)
        \/ \E i \in ItemIds : \E p \in Prices \ {items[i].price} :
              UpdateItem(r, items[i].user, i, [price |-> p])
        \/ \E u \in UserIds : CreateOrderQuery(r, u)
        \/ CartStep(r)

SpecCart == Init /\ [][NextCart]_vars

\* ---------------------------------------- checkout failure specification

CheckoutStep(r) ==
    \/ AddToCartWrite(r)
    \/ CreateOrderCharge(r)
    \/ CreateOrderChargeFail(r)
    \/ CreateOrderPersist(r)
    \/ CreateOrderPersistFail(r)
    \/ CreateOrderClear(r)
    \/ CreateOrderClearFail(r)

\* Checkout with every call it awaits free to fail: the user query, the charge,
\* the order write and the cart clean-up.
NextCheckout ==
    \E r \in Req :
        \/ \E u \in UserIds, i \in ItemIds : AddToCartQuery(r, u, i)
        \/ \E u \in UserIds : CreateOrderQuery(r, u) \/ CreateOrderQueryFail(r, u)
        \/ CheckoutStep(r)

SpecCheckout == Init /\ [][NextCheckout]_vars

\* ------------------------------------- password reset specification

Passwords == {"pw1", "new"}

ResetStep(r) ==
    \/ RequestResetUpdate(r)
    \/ RequestResetMail(r)
    \/ RequestResetMailFail(r)
    \/ ResetPasswordUpdate(r)

\* Sign-up and password reset, concurrently, while the clock advances.
NextReset ==
    \/ Tick
    \/ \E r \in Req :
        \/ \E id \in NewUserIds, e \in {"A@x", "C@x"} : Signup(r, id, e, "pw1")
        \/ \E e \in {"a@x", "b@x", "c@x"} : RequestResetQuery(r, Anonymous, e)
        \/ \E t \in 0..(nextToken - 1), c \in Passwords :
              ResetPasswordQuery(r, Anonymous, t, "new", c)
        \/ ResetStep(r)

SpecReset == Init /\ [][NextReset]_vars

\* --------------------------------------------- sequential specification

\* No resolver is between two of its awaits.
Quiescent == \A r \in Req : pc[r] \in {"idle", "done"}

SeqStep(r) ==
    \/ AddToCartWrite(r)
    \/ RemoveFromCartDelete(r)
    \/ CreateOrderCharge(r)
    \/ CreateOrderPersist(r)
    \/ CreateOrderClear(r)

\* The cart operations one after another: a request arrives only when every
\* earlier one has returned.
NextSeq ==
    \E r \in Req :
        \/ Quiescent /\ \E u \in UserIds, i \in ItemIds : AddToCartQuery(r, u, i)
        \/ Quiescent /\ \E u \in UserIds, c \in 1..nextCartId : RemoveFromCartQuery(r, u, c)
        \/ Quiescent /\ \E u \in UserIds : CreateOrderQuery(r, u)
        \/ SeqStep(r)

SpecSeq == Init /\ [][NextSeq]_vars

\* ------------------------------------------ authorization specification

Actors == UserIds \cup {Anonymous}

PermissionSets == {{"USER"}, {"USER", "ITEMDELETE"}, {"USER", "PERMISSIONUPDATE"}}

AuthStep(r) ==
    \/ AddToCartWrite(r)
    \/ RemoveFromCartDelete(r)
    \/ DeleteItemDelete(r)
    \/ UpdatePermissionsUpdate(r)
    \/ CreateOrderCharge(r)
    \/ CreateOrderPersist(r)
    \/ CreateOrderClear(r)

\* The mutations on items, permissions and carts, called with and without a session.
NextAuth ==
    \E r \in Req :
        \/ \E u \in Actors, i \in NewItemIds : CreateItem(r, u, i, "shirt", 500)
        \/ \E u \in Actors : UpdateItem(r, u, "i1", [price |-> 500])
        \/ \E u \in Actors, i \in ItemIds : DeleteItemQuery(r, u, i)
        \/ \E u \in Actors, p \in PermissionSets : UpdatePermissionsQuery(r, u, "u1", p)
        \/ \E u \in Actors : AddToCartQuery(r, u, "i1")
        \/ \E u \in Actors, c \in 1..nextCartId : RemoveFromCartQuery(r, u, c)
        \/ \E u \in Actors : CreateOrderQuery(r, u)
        \/ AuthStep(r)

SpecAuth == InitAdmin /\ [][NextAuth]_vars

\* ---------------------------------------------- privilege specification

\* The store as seeded, with or without an administrator.
InitEither == Init \/ InitAdmin

\* Arguments of signup: the schema's, and with a permissions field besides.
SignupArgs ==
    {[email |-> "c@x", password |-> "pw1"],
     [email |-> "C@x", password |-> "pw1", permissions |-> {"USER", "ADMIN"}]}

GrantSets == {{"USER"}, {"USER", "PERMISSIONUPDATE"}, {"USER", "ADMIN"}}

PrivStep(r) ==
    \/ UpdatePermissionsUpdate(r)
    \/ RequestResetUpdate(r)
    \/ RequestResetMail(r)
    \/ ResetPasswordUpdate(r)

\* The resolvers that write User rows, called with and without a session, from
\* a store with and without an administrator.
NextPriv ==
    \E r \in Req :
        \/ \E id \in NewUserIds, a \in SignupArgs : SignupWith(r, id, a)
        \/ \E u \in Actors, t \in UserIds, p \in GrantSets :
              UpdatePermissionsQuery(r, u, t, p)
        \/ RequestResetQuery(r, Anonymous, "a@x")
        \/ \E t \in 1..(nextToken - 1) : ResetPasswordQuery(r, Anonymous, t, "new", "new")
        \/ PrivStep(r)

SpecPriv == InitEither /\ [][NextPriv]_vars

\* ------------------------------------------ item deletion specification

DeleteStep(r) ==
    \/ DeleteItemDelete(r)
    \/ UpdatePermissionsUpdate(r)

\* Signed-in users create and delete items while permissions are granted and
\* withdrawn.
NextDelete ==
    \E r \in Req :
        \/ \E u \in UserIds, i \in NewItemIds : CreateItem(r, u, i, "hat", 500)
        \/ \E u \in UserIds, i \in ItemIds \cup NewItemIds : DeleteItemQuery(r, u, i)
        \/ \E u \in UserIds, p \in PermissionSets : UpdatePermissionsQuery(r, u, "u1", p)
        \/ DeleteStep(r)

SpecDelete == InitAdmin /\ [][NextDelete]_vars

\* ------------------------------------------- order history specification

OrderStep(r) ==
    \/ AddToCartWrite(r)
    \/ RemoveFromCartDelete(r)
    \/ DeleteItemDelete(r)
    \/ CreateOrderCharge(r)
    \/ CreateOrderPersist(r)
    \/ CreateOrderClear(r)

\* The shirt is put in carts and checked out while its owner edits and deletes it.
NextOrders ==
    \E r \in Req :
        \/ \E u \in UserIds : AddToCartQuery(r, u, "i1")
        \/ \E u \in UserIds, c \in 1..nextCartId : RemoveFromCartQuery(r, u, c)
        \/ \E u \in UserIds : CreateOrderQuery(r, u)
        \/ UpdateItem(r, "u1", "i1", [title |-> "tee", price |-> 500])
        \/ DeleteItemQuery(r, "u1", "i1")
        \/ OrderStep(r)

SpecOrders == Init /\ [][NextOrders]_vars

\* ------------------------------------------------- whole specification

\* Every resolver, concurrently, with every awaited call free to fail.
Next == NextCart \/ NextCheckout \/ NextReset \/ NextAuth \/ NextPriv \/ NextDelete \/ NextOrders

Spec == Init /\ [][Next]_vars

\* ============================================================ claims

\* The requests that ran createOrder.
Checkouts == {r \in Req : op[r] = "createOrder"}

\* The gateway calls made with the payment token of request r.
CallsOf(r) == {k \in 1..Len(gateway) : gateway[k].source = arg[r].token}

\* The last call the gateway received, when this step made one.
Called == Len(gateway') = Len(gateway) + 1
LastCall == gateway'[Len(gateway')]

\* Sum of price * quantity over rows k..Len(cart) of a cart snapshot.
RECURSIVE TotalFrom(_, _)
TotalFrom(cart, k) ==
    IF k > Len(cart) THEN 0
    ELSE Get(cart[k].item).price * cart[k].quantity + TotalFrom(cart, k + 1)

\* C1: in every reachable state, under any interleaving of addToCart invocations,
\* the store holds at most one CartItem row for any (user, item) pair.
C1_OneCartItemPerPair ==
    \A u \in DOMAIN users, i \in ItemIds \cup NewItemIds :
        Cardinality(CartItemsOf(u, i)) <= 1

\* C2: when the gateway rejects the charge of a createOrder invocation, the
\* invocation ends in failure in that step and the step leaves the store as it
\* was (no Order created, every CartItem row kept with its quantity); no Order
\* ever refers to a rejected charge.
C2_ChargeFailureLeavesStore ==
    /\ [][\A r \in Checkouts :
            (Called /\ ~LastCall.ok /\ LastCall.source = arg[r].token)
            => /\ pc'[r] = "done"
               /\ result'[r] \notin {"ok", "pending"}
               /\ orders' = orders
               /\ cartItems' = cartItems
               /\ store' = store]_vars
    /\ [](\A k \in 1..Len(gateway) :
            ~gateway[k].ok => \A o \in 1..Len(orders) : orders[o].charge # k)

\* C2's case: a checkout of a non-empty cart has failed at the gateway, and the
\* rows of its snapshot are all still in the store with their quantities.
C2_Witness ==
    \E r \in Checkouts :
        /\ pc[r] = "done" /\ result[r] = "GatewayError"
        /\ loc[r].cart # <<>>
        /\ \A k \in 1..Len(loc[r].cart) :
              /\ loc[r].cart[k].id \in DOMAIN cartItems
              /\ cartItems[loc[r].cart[k].id].quantity = loc[r].cart[k].quantity

\* C3: the clear step of createOrder deletes exactly the CartItem rows whose ids
\* were read in that invocation's snapshot: every other row, a row added for the
\* same user since the snapshot included, is in the store after it as before.
C3_ClearDeletesSnapshotOnly ==
    [][\A r \in Checkouts :
          (pc[r] = "co_clear" /\ pc'[r] = "done" /\ result'[r] = "ok")
          => /\ DOMAIN cartItems' =
                   DOMAIN cartItems \ {loc[r].cart[k].id : k \in 1..Len(loc[r].cart)}
             /\ \A c \in DOMAIN cartItems' : cartItems'[c] = cartItems[c]]_vars

\* C3's case: a checkout with a non-empty snapshot has returned, and a row of the
\* same user that was added after the snapshot was read is in the store.
C3_Witness ==
    \E r \in Checkouts :
        /\ pc[r] = "done" /\ result[r] = "ok"
        /\ loc[r].cart # <<>>
        /\ \E q \in Req, c \in DOMAIN cartItems :
              /\ q > r /\ op[q] = "addToCart" /\ actor[q] = actor[r]
              /\ pc[q] = "done" /\ result[q] = "ok" /\ ~IsSome(loc[q].found)
              /\ cartItems[c].user = actor[r]
              /\ cartItems[c].item = arg[q].id
              /\ \A k \in 1..Len(loc[r].cart) : loc[r].cart[k].id < c
              /\ \A z \in Req : z > q => pc[z] = "idle"
              /\ Len(orders) = 1

\* C6: a createOrder invocation that fails after its charge succeeded ends with an
\* outcome that no createOrder invocation failing at or before the charge ends with.
C6_PostChargeFailureDistinct ==
    \A r \in Checkouts, q \in Checkouts :
        ( /\ pc[r] = "done" /\ result[r] # "ok" /\ IsSome(loc[r].charge)
          /\ pc[q] = "done" /\ result[q] # "ok" /\ ~IsSome(loc[q].charge) )
        => result[r] # result[q]

\* C7: a createOrder invocation calls the gateway at most once, exactly once when
\* it got past the charge step, with currency USD and the amount
\* sum(item.price * quantity) over the rows of its one cart snapshot.
C7_OneChargeOfSnapshotTotal ==
    \A r \in Checkouts :
        /\ Cardinality(CallsOf(r)) =
              IF \/ pc[r] \in {"co_create", "co_clear"}
                 \/ pc[r] = "done" /\ IsSome(loc[r].charge)
                 \/ pc[r] = "done" /\ result[r] = "GatewayError"
              THEN 1 ELSE 0
        /\ \A k \in CallsOf(r) :
              /\ gateway[k].currency = "USD"
              /\ gateway[k].amount = TotalFrom(loc[r].cart, 1)

\* C7's case: a checkout has charged a snapshot holding a quantity above one while
\* the user's cart or the items in it have changed since.
C7_Witness ==
    \E r \in Checkouts :
        /\ IsSome(loc[r].charge)
        /\ \E k \in 1..Len(loc[r].cart) : loc[r].cart[k].quantity > 1
        /\ CartSnapshot(actor[r]) # loc[r].cart

\* C8: the Order a createOrder invocation persisted has the gateway's returned
\* amount as total, the returned charge id as charge, the invoking user as owner,
\* and one OrderItem per snapshot row with the row's quantity and the snapshot's
\* title, price, description and images, and no id field.
C8_OrderMatchesChargeAndSnapshot ==
    \A r \in Checkouts :
        (pc[r] = "co_clear" \/ (pc[r] = "done" /\ IsSome(loc[r].found)))
        => LET o == orders[Get(loc[r].found)]
               ch == Get(loc[r].charge)
               cart == loc[r].cart
           IN  /\ o.total = ch.amount
               /\ o.charge = ch.id
               /\ gateway[ch.id].ok /\ gateway[ch.id].source = arg[r].token
               /\ o.user = actor[r]
               /\ Len(o.items) = Len(cart)
               /\ \A k \in 1..Len(cart) :
                     /\ o.items[k].quantity = cart[k].quantity
                     /\ o.items[k].title = Get(cart[k].item).title
                     /\ o.items[k].price = Get(cart[k].item).price
                     /\ o.items[k].description = Get(cart[k].item).description
                     /\ o.items[k].image = Get(cart[k].item).image
                     /\ o.items[k].largeImage = Get(cart[k].item).largeImage
                     /\ "id" \notin DOMAIN o.items[k]

\* C8's case: a checkout of a cart of two rows has returned its Order, and the
\* amount the gateway captured is not the amount that was asked for.
C8_Witness ==
    \E r \in Checkouts :
        /\ pc[r] = "done" /\ result[r] = "ok"
        /\ Len(loc[r].cart) = 2
        /\ Get(loc[r].charge).amount # TotalFrom(loc[r].cart, 1)

\* The mutations the claim C5 names.
GuardedMutations ==
    {"createItem", "updateItem", "deleteItem", "updatePermissions", "addToCart",
     "removeFromCart", "createOrder"}

\* C4: requestReset stores its token with an expiry one hour after the request
\* time, and a resetPassword call made with a stored token at a time later than
\* that token's stored expiry fails with the invalid-or-expired error, in the step
\* of its lookup, changing no user row.
C4_ExpiredTokenRejected ==
    [][\A r \in Req :
          /\ (pc[r] = "rr_update" /\ pc'[r] = "rr_mail")
             => \E u \in DOMAIN users :
                   /\ users[u].email = arg[r].email
                   /\ users'[u].resetToken # users[u].resetToken
                   /\ users'[u].resetTokenExpiry = Some(now + 60 * 60 * 1000)
          /\ ( /\ pc[r] = "idle" /\ op'[r] = "resetPassword"
               /\ arg'[r].password = arg'[r].confirmPassword
               /\ \E u \in DOMAIN users :
                     /\ users[u].resetToken = Some(arg'[r].resetToken)
                     /\ now > Get(users[u].resetTokenExpiry) )
             => (pc'[r] = "done" /\ result'[r] = "InvalidOrExpired" /\ users' = users)
      ]_vars

\* C5: a createItem, updateItem, deleteItem, updatePermissions, addToCart,
\* removeFromCart or createOrder call that carries no session userId fails with
\* Unauthenticated in its first step, and that step leaves the store unchanged.
C5_AnonymousRejected ==
    [][\A r \in Req :
          (pc[r] = "idle" /\ pc'[r] # "idle" /\ actor'[r] = Anonymous
             /\ op'[r] \in GuardedMutations)
          => (pc'[r] = "done" /\ result'[r] = "Unauthenticated" /\ store' = store)
      ]_vars

\* C9: in every reachable state each User has its resetToken and its
\* resetTokenExpiry both set or both absent.
C9_TokenAndExpiryTogether ==
    \A u \in DOMAIN users :
        IsSome(users[u].resetToken) <=> IsSome(users[u].resetTokenExpiry)

\* C9's case: one user holds a reset token and its expiry, and another has reset
\* the password and holds neither.
C9_Witness ==
    /\ \E u \in DOMAIN users :
          IsSome(users[u].resetToken) /\ IsSome(users[u].resetTokenExpiry)
    /\ \E r \in Req, u \in DOMAIN users :
          /\ op[r] = "resetPassword" /\ pc[r] = "done" /\ result[r] = "ok"
          /\ users[u].password = Hash(arg[r].password)
          /\ ~IsSome(users[u].resetToken) /\ ~IsSome(users[u].resetTokenExpiry)

\* The addToCart calls of user u for item i that have returned.
AddsDone(u, i) ==
    {r \in Req : /\ op[r] = "addToCart" /\ actor[r] = u /\ arg[r].id = i
                 /\ pc[r] = "done" /\ result[r] = "ok"}

\* The other operations on the cart of user u.
OtherCartOps(u) ==
    {r \in Req : pc[r] # "idle" /\ actor[r] = u
                 /\ op[r] \in {"removeFromCart", "createOrder"}}

\* C10: when the operations run one after another, n >= 1 addToCart(u, i) calls
\* on a pair that had no CartItem, with no other operation on the pair, leave
\* exactly one CartItem for (u, i), of quantity n; each call makes the one row of
\* quantity 1 when the pair has none and adds 1 to the one row when it has one.
C10_SequentialAddsCount ==
    /\ [](\A u \in UserIds, i \in ItemIds :
            (Quiescent /\ OtherCartOps(u) = {} /\ AddsDone(u, i) # {})
            => \E c \in DOMAIN cartItems :
                  /\ CartItemsOf(u, i) = {c}
                  /\ cartItems[c].quantity = Cardinality(AddsDone(u, i)))
    /\ [][\A r \in Req :
            (pc[r] = "atc_write" /\ pc'[r] = "done" /\ result'[r] = "ok")
            => LET before == CartItemsOf(actor[r], arg[r].id)
                   after == {c \in DOMAIN cartItems' :
                               /\ cartItems'[c].user = actor[r]
                               /\ cartItems'[c].item = arg[r].id}
               IN  /\ Cardinality(before) <= 1
                   /\ Cardinality(after) = 1
                   /\ \A c \in after :
                         cartItems'[c].quantity =
                            IF c \in before THEN cartItems[c].quantity + 1 ELSE 1
                   /\ before \subseteq after]_vars

\* C10's case: every request of the behaviour was an addToCart of one pair, they
\* ran one after another, and the pair's one row counts them all.
C10_Witness ==
    \E u \in UserIds, i \in ItemIds :
        /\ AddsDone(u, i) = Req
        /\ \E c \in DOMAIN cartItems :
              CartItemsOf(u, i) = {c} /\ cartItems[c].quantity = NReq

\* The permissions that authorise updatePermissions.
Privileged == {"ADMIN", "PERMISSIONUPDATE"}

\* C11: updatePermissions is a pure permission gate. When the stored permissions
\* of the signed-in caller hold neither ADMIN nor PERMISSIONUPDATE at the check,
\* the call fails there and no User row changes, the caller's own included; when
\* they hold one of the two, the call goes on to its update, which sets the
\* target's permissions to exactly the requested set and changes no other row.
C11_PermissionGate ==
    [][\A r \in Req :
          /\ (pc[r] = "idle" /\ op'[r] = "updatePermissions"
                 /\ actor'[r] \in DOMAIN users)
             => /\ users' = users
                /\ IF users[actor'[r]].permissions \cap Privileged = {}
                   THEN pc'[r] = "done" /\ result'[r] = "Forbidden"
                   ELSE pc'[r] = "up_update"
          /\ (pc[r] = "up_update" /\ pc'[r] # "up_update"
                 /\ arg[r].userId \in DOMAIN users)
             => /\ result'[r] = "ok"
                /\ DOMAIN users' = DOMAIN users
                /\ users'[arg[r].userId] =
                      [users[arg[r].userId] EXCEPT !.permissions = arg[r].permissions]
                /\ \A u \in DOMAIN users \ {arg[r].userId} : users'[u] = users[u]]_vars

\* C11's case: a caller without either permission was refused a change to their
\* own row, and a call that passed the check has set its target's permissions.
C11_Witness ==
    /\ \E r \in Req :
          /\ op[r] = "updatePermissions" /\ actor[r] = arg[r].userId
          /\ pc[r] = "done" /\ result[r] = "Forbidden"
          /\ arg[r].permissions \cap Privileged # {}
    /\ \E q \in Req :
          /\ op[q] = "updatePermissions" /\ pc[q] = "done" /\ result[q] = "ok"
          /\ arg[q].permissions # {"USER"}
          /\ users[arg[q].userId].permissions = arg[q].permissions

\* No User row holds ADMIN or PERMISSIONUPDATE.
NoPrivileged == \A u \in DOMAIN users : users[u].permissions \cap Privileged = {}

\* C20: no privilege escalation. A User row is created with permissions exactly
\* {USER}, whatever the arguments of signup; the permissions of a row change only
\* in the update step of an updatePermissions call, and a call reaches that step
\* only if its caller's stored permissions held ADMIN or PERMISSIONUPDATE at its
\* check; so no step leads from a store without a holder of either to one with.
C20_NoPrivilegeEscalation ==
    [][/\ \A u \in DOMAIN users' :
             IF u \notin DOMAIN users
             THEN users'[u].permissions = {"USER"}
             ELSE users'[u].permissions # users[u].permissions
                  => \E r \in Req :
                        /\ op[r] = "updatePermissions" /\ arg[r].userId = u
                        /\ pc[r] = "up_update" /\ pc'[r] = "done"
       /\ \A r \in Req :
             (pc[r] = "idle" /\ pc'[r] = "up_update")
             => /\ actor'[r] \in DOMAIN users
                /\ users[actor'[r]].permissions \cap Privileged # {}
       /\ NoPrivileged => NoPrivileged']_vars

\* C12: for a signed-in caller and an existing item, deleteItem goes on to delete
\* exactly when the caller is the item's owner or the caller's permissions hold
\* ADMIN or ITEMDELETE, and otherwise fails as Forbidden with the item kept: an
\* owner holding only USER passes, a non-owner holding only USER does not. The
\* delete step removes that item and no other, and no item is removed otherwise.
C12_DeleteItemGate ==
    [][/\ \A r \in Req :
          /\ (pc[r] = "idle" /\ op'[r] = "deleteItem"
                 /\ actor'[r] \in DOMAIN users /\ arg'[r].id \in DOMAIN items)
             => /\ items' = items
                /\ IF \/ items[arg'[r].id].user = actor'[r]
                      \/ users[actor'[r]].permissions \cap {"ADMIN", "ITEMDELETE"} # {}
                   THEN pc'[r] = "di_delete"
                   ELSE pc'[r] = "done" /\ result'[r] = "Forbidden"
          /\ (pc[r] = "di_delete" /\ pc'[r] # "di_delete" /\ arg[r].id \in DOMAIN items)
             => /\ result'[r] = "ok"
                /\ items' = Without(items, {arg[r].id})
       /\ \A i \in DOMAIN items \ DOMAIN items' :
                \E q \in Req : pc[q] = "di_delete" /\ pc'[q] = "done" /\ arg[q].id = i]_vars

\* C12's case: with u1 holding only USER throughout, u1 has deleted an item of
\* their own, and u1's call to delete an item of u2 was refused, the item kept.
C12_Witness ==
    /\ \A z \in Req : op[z] # "updatePermissions"
    /\ users["u1"].permissions = {"USER"}
    /\ \E r \in Req :
          /\ op[r] = "deleteItem" /\ actor[r] = "u1" /\ arg[r].id = "i1"
          /\ pc[r] = "done" /\ result[r] = "ok" /\ "i1" \notin DOMAIN items
    /\ \E q \in Req :
          /\ op[q] = "deleteItem" /\ actor[q] = "u1" /\ arg[q].id = "i2"
          /\ pc[q] = "done" /\ result[q] = "Forbidden"
          /\ "i2" \in DOMAIN items /\ items["i2"].user = "u2"

\* C13: when requestReset has found the user and stored the token, a failure of
\* the email send is swallowed: the step in which the send answers, failing or
\* not, ends the call in success and leaves the token and expiry in the store.
C13_MailFailureSwallowed ==
    [][\A r \in Req :
          (pc[r] = "rr_mail" /\ pc'[r] = "done")
          => /\ result'[r] = "ok"
             /\ users' = users]_vars

\* The resetPassword calls that have returned in success.
Resets == {r \in Req : op[r] = "resetPassword" /\ pc[r] = "done" /\ result[r] = "ok"}

\* The user u holds the token, and its expiry has not passed at time t.
HoldsValidToken(u, token, t) ==
    /\ users[u].resetToken = Some(token)
    /\ IsSome(users[u].resetTokenExpiry)
    /\ t <= Get(users[u].resetTokenExpiry)

\* C15: a resetPassword call whose password and confirmation differ fails as
\* InvalidInput in its first step and leaves the store as it was, hash, token
\* and expiry included; so a call with the same token and matching passwords,
\* made while the token is held and unexpired, passes its lookup whatever
\* mismatching calls came before, and its update ends in success and sets the hash.
C15_MismatchLeavesToken ==
    [][\A r \in Req :
          /\ (pc[r] = "idle" /\ op'[r] = "resetPassword")
             => IF arg'[r].password # arg'[r].confirmPassword
                THEN /\ pc'[r] = "done" /\ result'[r] = "InvalidInput"
                     /\ store' = store
                ELSE (\E u \in DOMAIN users :
                         HoldsValidToken(u, arg'[r].resetToken, now))
                     => pc'[r] = "rp_update" /\ store' = store
          /\ (pc[r] = "rp_update" /\ pc'[r] # "rp_update")
             => /\ result'[r] = "ok"
                /\ \E u \in DOMAIN users :
                      /\ users[u].email = Get(loc[r].found)
                      /\ users'[u].password = Hash(arg[r].password)]_vars

\* C15's case: a resetPassword call with an issued token and differing passwords
\* has failed, and a later call with the same token and matching passwords has
\* succeeded.
C15_Witness ==
    \E r \in Req, q \in Resets :
        /\ r < q
        /\ op[r] = "resetPassword" /\ pc[r] = "done" /\ result[r] = "InvalidInput"
        /\ arg[r].resetToken >= 1
        /\ arg[q].resetToken = arg[r].resetToken
        /\ \E u \in DOMAIN users : users[u].password = Hash(arg[q].password)

\* C19: a reset token is single-use: under any interleaving at most one
\* resetPassword call succeeds with a given token, and once one has succeeded
\* every resetPassword call arriving with that token fails as invalid or expired.
C19_TokenSingleUse ==
    /\ [](\A r \in Resets, q \in Resets :
             arg[r].resetToken = arg[q].resetToken => r = q)
    /\ [][\A q \in Req :
            (/\ pc[q] = "idle" /\ op'[q] = "resetPassword"
             /\ arg'[q].password = arg'[q].confirmPassword
             /\ \E r \in Resets : arg[r].resetToken = arg'[q].resetToken)
            => pc'[q] = "done" /\ result'[q] = "InvalidOrExpired"]_vars

\* C16: removeFromCart fails as NotFound when no CartItem row has the requested
\* id and as Forbidden when the row's user is not the caller, the store kept in
\* both cases; otherwise it goes on to delete exactly that row, which is the
\* caller's. So no step of a removeFromCart call deletes or changes a CartItem
\* row of a user other than its caller.
C16_RemoveFromCartGate ==
    [][\A r \in Req :
          /\ (pc[r] = "idle" /\ op'[r] = "removeFromCart")
             => /\ cartItems' = cartItems
                /\ IF arg'[r].id \notin DOMAIN cartItems
                   THEN pc'[r] = "done" /\ result'[r] = "NotFound"
                   ELSE IF cartItems[arg'[r].id].user # actor'[r]
                        THEN pc'[r] = "done" /\ result'[r] = "Forbidden"
                        ELSE pc'[r] = "rfc_delete"
          /\ (pc[r] = "rfc_delete" /\ pc'[r] # "rfc_delete"
                 /\ arg[r].id \in DOMAIN cartItems)
             => /\ result'[r] = "ok"
                /\ cartItems[arg[r].id].user = actor[r]
                /\ cartItems' = Without(cartItems, {arg[r].id})
          /\ (pc'[r] # pc[r] /\ op'[r] = "removeFromCart")
             => \A c \in DOMAIN cartItems :
                   cartItems[c].user # actor'[r]
                   => c \in DOMAIN cartItems' /\ cartItems'[c] = cartItems[c]]_vars

\* C16's case: a user's call to remove a row of another user was refused, and
\* the row's owner has since removed that row.
C16_Witness ==
    \E r \in Req, q \in Req :
        /\ op[r] = "removeFromCart" /\ pc[r] = "done" /\ result[r] = "Forbidden"
        /\ op[q] = "removeFromCart" /\ pc[q] = "done" /\ result[q] = "ok"
        /\ r < q /\ arg[q].id = arg[r].id /\ actor[q] # actor[r]
        /\ arg[q].id \notin DOMAIN cartItems

\* The checkouts that hold a successful charge, and those that have persisted
\* their Order.
Charged == {r \in Checkouts : IsSome(loc[r].charge)}
Persisted == {r \in Checkouts : IsSome(loc[r].found)}

\* C17: no cart content is paid for twice: under any interleaving of createOrder
\* calls, a CartItem row is in the snapshot of at most one call whose charge
\* succeeded, and in the snapshot of at most one call that persisted an Order.
C17_NoCartRowPaidTwice ==
    \A c \in 1..nextCartId :
        /\ Cardinality({r \in Charged : c \in CartItemIds(loc[r].cart)}) <= 1
        /\ Cardinality({r \in Persisted : c \in CartItemIds(loc[r].cart)}) <= 1

\* C18: every unit createOrder removes from a cart was charged and recorded:
\* each row the clear step deletes has, when deleted, the quantity recorded in
\* the OrderItem made of it, also when an addToCart call for the row's item ran
\* between the snapshot and the clear.
C18_ClearedUnitsWereCharged ==
    [][\A r \in Checkouts :
          (pc[r] = "co_clear" /\ pc'[r] = "done" /\ result'[r] = "ok")
          => \A k \in 1..Len(loc[r].cart) :
                loc[r].cart[k].id \in DOMAIN cartItems \ DOMAIN cartItems'
                => cartItems[loc[r].cart[k].id].quantity
                      = orders[Get(loc[r].found)].items[k].quantity]_vars

\* C14: once an Order is persisted no later step changes it: whatever updateItem,
\* deleteItem, addToCart, removeFromCart or createOrder does next, every Order in
\* the store keeps its total, its charge id and the fields of its OrderItems,
\* and no Order leaves the store.
C14_PersistedOrderImmutable ==
    [][/\ Len(orders') >= Len(orders)
       /\ \A o \in 1..Len(orders) : orders'[o] = orders[o]]_vars

\* C14's case: a checkout of a cart holding the shirt has returned its Order,
\* and a later call has edited or deleted the shirt, so that the OrderItem
\* differs from the live Item or has none.
C14_Witness ==
    \E r \in Checkouts, z \in Req :
        /\ pc[r] = "done" /\ result[r] = "ok" /\ loc[r].cart # <<>>
        /\ z > r /\ op[z] \in {"updateItem", "deleteItem"}
        /\ pc[z] = "done" /\ result[z] = "ok"
        /\ LET order == orders[Get(loc[r].found)] IN
           /\ order.items[1].title = "shirt" /\ order.items[1].price = 1000
           /\ order.total \in Captured(1000 * order.items[1].quantity)
           /\ "i1" \in DOMAIN items => items["i1"].title = "tee"

====
